---------------------------- MODULE Spec2Model ----------------------------
(***************************************************************************)
(* Roster line parser of flights-schedule-app.                             *)
(*                                                                         *)
(* A roster document is a list of text lines.  RosterParser turns it into  *)
(* FlightEvent records: parse_period reads the header, extract_work_       *)
(* sections scans the document lines and buckets them into C/I .. C/O      *)
(* sections, extract_flights_from_sections keeps the lines that match the  *)
(* full flight pattern, parse_flight_to_event builds the records, and the  *)
(* calendar generator decides per record which month it belongs to.        *)
(*                                                                         *)
(* Text lines are TLA+ strings; the regular expressions of the code are    *)
(* evaluated character by character.                                       *)
(***************************************************************************)
EXTENDS Integers, Sequences, FiniteSets, TLC

(***************************************************************************)
(* Characters and strings                                                  *)
(***************************************************************************)

\* Python's None, for the str-typed locals current_day / current_weekday.
None == "None"

\* The i-th character of s as a one-character string ("" when out of range).
Ch(s, i) == IF i >= 1 /\ i <= Len(s) THEN SubSeq(s, i, i) ELSE ""

Digits == {"0", "1", "2", "3", "4", "5", "6", "7", "8", "9"}

UpperSeq == "ABCDEFGHIJKLMNOPQRSTUVWXYZ"
LowerSeq == "abcdefghijklmnopqrstuvwxyz"

UpperLetters == {Ch(UpperSeq, i) : i \in 1..26}
LowerLetters == {Ch(LowerSeq, i) : i \in 1..26}

\* str.lower() of one character.
Lower(c) ==
    IF c \in UpperLetters
    THEN Ch(LowerSeq, CHOOSE i \in 1..26 : Ch(UpperSeq, i) = c)
    ELSE c

\* \d
IsDigit(c) == c \in Digits

\* [A-Za-z]
IsAlpha(c) == c \in UpperLetters \cup LowerLetters

\* \s
IsSpace(c) == c \in {" ", "\t"}

\* The literal lit stands in s at position p.
LitAt(s, p, lit) ==
    /\ p >= 1
    /\ p + Len(lit) - 1 <= Len(s)
    /\ SubSeq(s, p, p + Len(lit) - 1) = lit

\* Python's `sub in s`.
Contains(s, sub) == \E p \in 1..Len(s) : LitAt(s, p, sub)

\* n characters from position p are all digits / all letters.
DigitsAt(s, p, n) == \A i \in p..(p + n - 1) : IsDigit(Ch(s, i))
AlphaAt(s, p, n) == \A i \in p..(p + n - 1) : IsAlpha(Ch(s, i))

\* The length of the longest run of digits starting at p, capped at max:
\* what a greedy \d{1,max} consumes first.
DigitRun(s, p, max) ==
    CHOOSE n \in 0..max :
        /\ DigitsAt(s, p, n)
        /\ (n = max \/ ~IsDigit(Ch(s, p + n)))

DigitVal(c) ==
    CASE c = "0" -> 0 [] c = "1" -> 1 [] c = "2" -> 2 [] c = "3" -> 3
      [] c = "4" -> 4 [] c = "5" -> 5 [] c = "6" -> 6 [] c = "7" -> 7
      [] c = "8" -> 8 [] c = "9" -> 9

\* int(s) for a string of decimal digits.
RECURSIVE StrToInt(_)
StrToInt(s) ==
    IF Len(s) = 0 THEN 0
    ELSE 10 * StrToInt(SubSeq(s, 1, Len(s) - 1)) + DigitVal(Ch(s, Len(s)))

(***************************************************************************)
(* The three line patterns (re.match: anchored at the line start, trailing *)
(* content ignored)                                                        *)
(***************************************************************************)

NoMatch == [matched |-> FALSE]

\* ^(\d{1,2})\.   The number of digits of the day prefix, 0 when the line
\* does not start with one or two digits followed by a dot.  The greedy
\* \d{1,2} backtracks to one digit only when the second character is the dot.
DayPrefixLen(line) ==
    IF IsDigit(Ch(line, 1)) /\ IsDigit(Ch(line, 2)) /\ Ch(line, 3) = "." THEN 2
    ELSE IF IsDigit(Ch(line, 1)) /\ Ch(line, 2) = "." THEN 1
    ELSE 0

\* WORKDAY_PATTERN = ^(\d{1,2})\.\s([A-Za-z]{3})\sC/I\s([A-Za-z]{3})
WORKDAY_PATTERN(line) ==
    LET n == DayPrefixLen(line) IN
    IF /\ n > 0
       /\ IsSpace(Ch(line, n + 2))
       /\ AlphaAt(line, n + 3, 3)
       /\ IsSpace(Ch(line, n + 6))
       /\ LitAt(line, n + 7, "C/I")
       /\ IsSpace(Ch(line, n + 10))
       /\ AlphaAt(line, n + 11, 3)
    THEN [matched |-> TRUE,
          g1 |-> SubSeq(line, 1, n),
          g2 |-> SubSeq(line, n + 3, n + 5),
          g3 |-> SubSeq(line, n + 11, n + 13)]
    ELSE NoMatch

\* FLIGHT_PATTERN = ^LO (\d{1,5})
FLIGHT_PATTERN(line) ==
    IF LitAt(line, 1, "LO ") /\ IsDigit(Ch(line, 4))
    THEN [matched |-> TRUE, g1 |-> SubSeq(line, 4, 3 + DigitRun(line, 4, 5))]
    ELSE NoMatch

\* FULL_FLIGHT_PATTERN =
\*   ^(\d{1,2})\.\s([A-Za-z]{3})\sLO\s(\d{1,5})\s([A-Za-z]{3})\s(\d{4})\s(\d{4})\s([A-Za-z]{3})
\* m is what \d{1,5} takes: the whole digit run, which a whitespace must
\* follow (a shorter take would be followed by a digit).
FULL_FLIGHT_PATTERN(line) ==
    LET n == DayPrefixLen(line)
        m == DigitRun(line, n + 10, 5)
        q == n + 10 + m
    IN
    IF /\ n > 0
       /\ IsSpace(Ch(line, n + 2))
       /\ AlphaAt(line, n + 3, 3)
       /\ IsSpace(Ch(line, n + 6))
       /\ LitAt(line, n + 7, "LO")
       /\ IsSpace(Ch(line, n + 9))
       /\ m >= 1
       /\ IsSpace(Ch(line, q))
       /\ AlphaAt(line, q + 1, 3)
       /\ IsSpace(Ch(line, q + 4))
       /\ DigitsAt(line, q + 5, 4)
       /\ IsSpace(Ch(line, q + 9))
       /\ DigitsAt(line, q + 10, 4)
       /\ IsSpace(Ch(line, q + 14))
       /\ AlphaAt(line, q + 15, 3)
    THEN [matched |-> TRUE,
          g1 |-> SubSeq(line, 1, n),
          g2 |-> SubSeq(line, n + 3, n + 5),
          g3 |-> SubSeq(line, n + 10, q - 1),
          g4 |-> SubSeq(line, q + 1, q + 3),
          g5 |-> SubSeq(line, q + 5, q + 8),
          g6 |-> SubSeq(line, q + 10, q + 13),
          g7 |-> SubSeq(line, q + 15, q + 17)]
    ELSE NoMatch

(***************************************************************************)
(* Dates: str.split(" "), datetime.strptime(token, "%d%b%y"), datetime()   *)
(***************************************************************************)

\* The position of the first space of s at or after p, 0 when there is none.
FirstSpace(s, p) ==
    IF \E i \in p..Len(s) : Ch(s, i) = " "
    THEN CHOOSE i \in p..Len(s) :
            /\ Ch(s, i) = " "
            /\ \A j \in p..(i - 1) : Ch(s, j) # " "
    ELSE 0

\* s.split(" "): the tokens between single spaces; consecutive spaces give
\* empty tokens, and "" gives one empty token.
RECURSIVE Split(_)
Split(s) ==
    LET i == FirstSpace(s, 1) IN
    IF i = 0 THEN <<s>>
    ELSE <<SubSeq(s, 1, i - 1)>> \o Split(SubSeq(s, i + 1, Len(s)))

MonthNames ==
    <<"jan", "feb", "mar", "apr", "may", "jun",
      "jul", "aug", "sep", "oct", "nov", "dec">>

IsLeap(y) == (y % 4 = 0 /\ y % 100 # 0) \/ y % 400 = 0

DaysInMonth(y, m) ==
    IF m = 2 THEN (IF IsLeap(y) THEN 29 ELSE 28)
    ELSE IF m \in {4, 6, 9, 11} THEN 30
    ELSE 31

\* The failure value of strptime and datetime().
ValueError == [ok |-> FALSE, error |-> "ValueError"]

\* datetime(year, month, day, hour, minute, tzinfo=UTC): the instant, or
\* ValueError when a field is out of range.  astimezone() changes the zone
\* the instant is shown in, not the instant: instants are kept in UTC for
\* comparison, and WarsawLocal gives the fields shown.
Datetime(y, m, d, hh, mm) ==
    IF /\ m \in 1..12
       /\ d >= 1 /\ d <= DaysInMonth(y, m)
       /\ hh \in 0..23
       /\ mm \in 0..59
    THEN [ok |-> TRUE, year |-> y, month |-> m, day |-> d,
          hour |-> hh, minute |-> mm]
    ELSE ValueError

\* %d of strptime: 3[0-1] | [1-2]\d | 0[1-9] | [1-9] |  [1-9].  The number
\* of characters it takes so that a letter follows, 0 when it does not match.
StrptimeDayLen(tok) ==
    LET a == Ch(tok, 1)
        b == Ch(tok, 2)
    IN
    IF \/ (a = "3" /\ b \in {"0", "1"})
       \/ (a \in {"1", "2"} /\ IsDigit(b))
       \/ (a \in {"0", " "} /\ IsDigit(b) /\ b # "0")
    THEN 2
    ELSE IF IsDigit(a) /\ a # "0" /\ ~IsDigit(b) THEN 1
    ELSE 0

StrptimeDay(tok, n) ==
    IF Ch(tok, 1) = " " THEN StrToInt(SubSeq(tok, 2, 2))
    ELSE StrToInt(SubSeq(tok, 1, n))

\* %b: the month whose abbreviated name stands at p, compared ignoring case;
\* 0 when none does.
StrptimeMonth(tok, p) ==
    LET name == Lower(Ch(tok, p)) \o Lower(Ch(tok, p + 1)) \o Lower(Ch(tok, p + 2))
    IN IF \E m \in 1..12 : MonthNames[m] = name
       THEN CHOOSE m \in 1..12 : MonthNames[m] = name
       ELSE 0

\* %y: two digits; 00..68 are 2000..2068, 69..99 are 1969..1999.
StrptimeYear(yy) == IF yy <= 68 THEN 2000 + yy ELSE 1900 + yy

\* datetime.strptime(tok, "%d%b%y"): the whole token must be day, month
\* name, two-digit year, and the day must exist in that month.
Strptime(tok) ==
    LET n == StrptimeDayLen(tok)
        m == StrptimeMonth(tok, n + 1)
    IN
    IF /\ n > 0
       /\ m > 0
       /\ DigitsAt(tok, n + 4, 2)
       /\ Len(tok) = n + 5
    THEN Datetime(StrptimeYear(StrToInt(SubSeq(tok, n + 4, n + 5))), m,
                  StrptimeDay(tok, n), 0, 0)
    ELSE ValueError

\* a < b for two instants.
DtLess(a, b) ==
    LET ka == <<a.year, a.month, a.day, a.hour, a.minute>>
        kb == <<b.year, b.month, b.day, b.hour, b.minute>>
    IN \E i \in 1..5 :
          /\ ka[i] < kb[i]
          /\ \A j \in 1..(i - 1) : ka[j] = kb[j]

\* The day of the week of a date, 0 for Sunday.
DayOfWeek(y, m, d) ==
    LET t == <<0, 3, 2, 5, 0, 3, 5, 1, 4, 6, 2, 4>>
        yy == IF m < 3 THEN y - 1 ELSE y
    IN (yy + (yy \div 4) - (yy \div 100) + (yy \div 400) + t[m] + d) % 7

\* The last Sunday of March or of October (months of 31 days).
LastSunday(y, m) == 31 - DayOfWeek(y, m, 31)

\* The offset of Europe/Warsaw from UTC at an instant, in hours: 2 from
\* 01:00 UTC of the last Sunday of March until 01:00 UTC of the last Sunday
\* of October, 1 otherwise.
WarsawOffset(dt) ==
    LET from == Datetime(dt.year, 3, LastSunday(dt.year, 3), 1, 0)
        till == Datetime(dt.year, 10, LastSunday(dt.year, 10), 1, 0)
    IN IF ~DtLess(dt, from) /\ DtLess(dt, till) THEN 2 ELSE 1

\* .astimezone(ZoneInfo("Europe/Warsaw")): the fields the instant shows in
\* Warsaw local time.
WarsawLocal(dt) ==
    LET h == dt.hour + WarsawOffset(dt) IN
    IF h < 24 THEN [dt EXCEPT !.hour = h]
    ELSE IF dt.day < DaysInMonth(dt.year, dt.month)
    THEN [dt EXCEPT !.hour = h - 24, !.day = dt.day + 1]
    ELSE IF dt.month < 12
    THEN [dt EXCEPT !.hour = h - 24, !.day = 1, !.month = dt.month + 1]
    ELSE [dt EXCEPT !.hour = h - 24, !.day = 1, !.month = 1,
                    !.year = dt.year + 1]

(***************************************************************************)
(* FlightEvent                                                             *)
(***************************************************************************)

\* The value of departure_datetime / arrival_datetime before it is set.
NoDatetime == [ok |-> FALSE, error |-> "None"]

\* datetime(base_date.year, base_date.month, self.day_of_month,
\*          int(hhmm[:2]), int(hhmm[2:]), tzinfo=UTC).astimezone(Warsaw)
ResolveInstant(base_date, day_of_month, hhmm) ==
    Datetime(base_date.year, base_date.month, day_of_month,
             StrToInt(SubSeq(hhmm, 1, 2)), StrToInt(SubSeq(hhmm, 3, Len(hhmm))))

\* FlightEvent.get_departure_datetime / get_arrival_datetime, as the parser
\* and the calendar generator call them.  The class in models/flight_event.py
\* holds the same computation under the names set_departure_datetime /
\* set_arrival_datetime (storing the instant); the getters are those of
\* app_claude.py.  A call is modelled as reaching that computation.
get_departure_datetime(ev, use_period_end) ==
    ResolveInstant(IF use_period_end THEN ev.period_end ELSE ev.period_start,
                   ev.day_of_month, ev.departure_time)

\* get_arrival_datetime with a day added when the arrival's HHMM is earlier
\* than the departure's.
get_arrival_datetime_next_day(ev, use_period_end) ==
    ResolveInstant(IF use_period_end THEN ev.period_end ELSE ev.period_start,
                   IF StrToInt(ev.arrival_time) < StrToInt(ev.departure_time)
                   THEN ev.day_of_month + 1 ELSE ev.day_of_month,
                   ev.arrival_time)

get_arrival_datetime(ev, use_period_end) ==
    ResolveInstant(IF use_period_end THEN ev.period_end ELSE ev.period_start,
                   ev.day_of_month, ev.arrival_time)

(***************************************************************************)
(* RosterParser.parse_period                                               *)
(***************************************************************************)

RosterParsingError == "RosterParsingError"

\* parse_period with the slip of returning the two dates in the other
\* order: a variant for the end-to-end statement C6.
parse_period_dates_swapped(ls) ==
    IF Len(ls) < 2 THEN [ok |-> FALSE, error |-> RosterParsingError]
    ELSE LET period_parts == Split(ls[2]) IN
         IF Len(period_parts) < 3
         THEN [ok |-> FALSE, error |-> RosterParsingError]
         ELSE LET ps == Strptime(period_parts[2])
                  pe == Strptime(period_parts[3])
              IN IF ps.ok /\ pe.ok
                 THEN [ok |-> TRUE, period_start |-> pe, period_end |-> ps]
                 ELSE [ok |-> FALSE, error |-> RosterParsingError]

\* parse_period with the slip of not failing on a period end that is no
\* date: a variant for the malformed-header statement C8.
parse_period_end_unchecked(ls) ==
    IF Len(ls) < 2 THEN [ok |-> FALSE, error |-> RosterParsingError]
    ELSE LET period_parts == Split(ls[2]) IN
         IF Len(period_parts) < 3
         THEN [ok |-> FALSE, error |-> RosterParsingError]
         ELSE LET ps == Strptime(period_parts[2])
                  pe == Strptime(period_parts[3])
              IN IF ps.ok
                 THEN [ok |-> TRUE, period_start |-> ps, period_end |-> pe]
                 ELSE [ok |-> FALSE, error |-> RosterParsingError]

\* (period_start, period_end), or the error raised.
parse_period(ls) ==
    IF Len(ls) < 2 THEN [ok |-> FALSE, error |-> RosterParsingError]
    ELSE LET period_parts == Split(ls[2]) IN
         IF Len(period_parts) < 3
         THEN [ok |-> FALSE, error |-> RosterParsingError]
         ELSE LET ps == Strptime(period_parts[2])
                  pe == Strptime(period_parts[3])
              IN IF ps.ok /\ pe.ok
                 THEN [ok |-> TRUE, period_start |-> ps, period_end |-> pe]
                 ELSE [ok |-> FALSE, error |-> RosterParsingError]

(***************************************************************************)
(* RosterParser.extract_work_sections: one step of the scan                *)
(***************************************************************************)

\* A section entry: the text appended, and (for the statements below) the
\* position in `lines` of the document line it was made from.
Entry(k, text) == [src |-> k, text |-> text]

\* The repair with the slip of leaving out the space before the line: a
\* variant for the date-prefix statement C5.
RepairedLineNoSpace(current_day, current_weekday, line) ==
    current_day \o ". " \o current_weekday \o line

\* f"{current_day}. {current_weekday} {line}"
RepairedLine(current_day, current_weekday, line) ==
    current_day \o ". " \o current_weekday \o " " \o line

\* Truthiness that holds of None and of the empty string too.
AlwaysTruthy(s) == TRUE

\* Python truthiness of current_day / current_weekday.
Truthy(s) == s # None /\ s # ""

\* Variants of the loop body of extract_work_sections: one that appends a
\* line with neither marker while not collecting, one that clears the
\* day/weekday context when a section is flushed, one that tests the
\* check-out marker before the check-in marker.
SegmentLineWith(seg, k, line, idle_appends, flush_clears, check_out_first) ==
    LET workday_match == WORKDAY_PATTERN(line)
        day == IF workday_match.matched THEN workday_match.g1 ELSE seg.current_day
        weekday == IF workday_match.matched THEN workday_match.g2
                   ELSE seg.current_weekday
        ctx == [seg EXCEPT !.current_day = day, !.current_weekday = weekday]
        closed == Append(seg.current_section, Entry(k, line))
        flushed == [ctx EXCEPT !.collecting = FALSE,
                               !.sections = Append(seg.sections, closed),
                               !.current_section = <<>>,
                               !.current_day =
                                   IF flush_clears THEN None ELSE day,
                               !.current_weekday =
                                   IF flush_clears THEN None ELSE weekday]
        opened == [ctx EXCEPT !.collecting = TRUE,
                              !.current_section = closed]
    IN
    IF Contains(line, "C/O") /\ (check_out_first \/ ~Contains(line, "C/I"))
    THEN flushed
    ELSE IF Contains(line, "C/I") THEN opened
    ELSE IF (seg.collecting \/ idle_appends) /\ Truthy(day) /\ Truthy(weekday)
    THEN IF FLIGHT_PATTERN(line).matched
         THEN [ctx EXCEPT !.current_section =
                   Append(seg.current_section,
                          Entry(k, RepairedLine(day, weekday, line)))]
         ELSE [ctx EXCEPT !.current_section = closed]
    ELSE ctx

SegmentLineIdleAppends(seg, k, line) ==
    SegmentLineWith(seg, k, line, TRUE, FALSE, FALSE)

SegmentLineFlushClears(seg, k, line) ==
    SegmentLineWith(seg, k, line, FALSE, TRUE, FALSE)

SegmentLineCheckOutFirst(seg, k, line) ==
    SegmentLineWith(seg, k, line, FALSE, FALSE, TRUE)

\* The body of `for line in lines[3:]`, on the locals
\* seg = [sections, current_section, collecting, current_day, current_weekday];
\* k is the position of line in `lines`.
SegmentLine(seg, k, line) ==
    LET workday_match == WORKDAY_PATTERN(line)
        day == IF workday_match.matched THEN workday_match.g1 ELSE seg.current_day
        weekday == IF workday_match.matched THEN workday_match.g2
                   ELSE seg.current_weekday
        ctx == [seg EXCEPT !.current_day = day, !.current_weekday = weekday]
    IN
    IF Contains(line, "C/I")
    THEN [ctx EXCEPT !.collecting = TRUE,
                     !.current_section = Append(seg.current_section, Entry(k, line))]
    ELSE IF Contains(line, "C/O")
    THEN LET closed == Append(seg.current_section, Entry(k, line)) IN
         [ctx EXCEPT !.collecting = FALSE,
                     !.sections = IF closed # <<>> THEN Append(seg.sections, closed)
                                  ELSE seg.sections,
                     !.current_section = <<>>]
    ELSE IF seg.collecting /\ Truthy(day) /\ Truthy(weekday)
    THEN IF FLIGHT_PATTERN(line).matched
         THEN [ctx EXCEPT !.current_section =
                   Append(seg.current_section,
                          Entry(k, RepairedLine(day, weekday, line)))]
         ELSE [ctx EXCEPT !.current_section =
                   Append(seg.current_section, Entry(k, line))]
    ELSE ctx

\* The return with the slip of flushing a section still open at the end of
\* the lines: a variant for the trailing-section statement C4.
ReturnedSectionsFlushed(secs, current) ==
    IF current # <<>> THEN Append(secs, current) ELSE secs

\* `return sections`: what the scan hands back at the end of the lines.
ReturnedSections(secs, current) == secs

(***************************************************************************)
(* RosterParser.extract_flights_from_sections, parse_flight_to_event       *)
(***************************************************************************)

_is_valid_flight_line(text) == FULL_FLIGHT_PATTERN(text).matched

\* The inner loop with the slip of ending at the first entry that is no
\* flight (a break, or an exception escaping): a variant for the
\* skip-on-mismatch statement C9.
RECURSIVE FlightsOfSectionUntilMismatch(_)
FlightsOfSectionUntilMismatch(section) ==
    IF section = <<>> THEN <<>>
    ELSE LET entry == Head(section) IN
         IF Contains(entry.text, "LO") /\ FULL_FLIGHT_PATTERN(entry.text).matched
         THEN <<entry>> \o FlightsOfSectionUntilMismatch(Tail(section))
         ELSE IF Contains(entry.text, "C/I")
         THEN FlightsOfSectionUntilMismatch(Tail(section))
         ELSE <<>>

\* The inner loop with the slip of testing for "LO" at the start of the
\* entry, where only a bare flight line has it: a variant for the
\* keep-iff-match statement C19.
RECURSIVE FlightsOfSectionLOFirst(_)
FlightsOfSectionLOFirst(section) ==
    IF section = <<>> THEN <<>>
    ELSE LET entry == Head(section) IN
         (IF LitAt(entry.text, 1, "LO") /\ FULL_FLIGHT_PATTERN(entry.text).matched
          THEN <<entry>> ELSE <<>>)
         \o FlightsOfSectionLOFirst(Tail(section))

\* The entries of one section that are kept, in order.
RECURSIVE FlightsOfSection(_)
FlightsOfSection(section) ==
    IF section = <<>> THEN <<>>
    ELSE LET entry == Head(section) IN
         (IF Contains(entry.text, "LO") /\ _is_valid_flight_line(entry.text)
          THEN <<entry>> ELSE <<>>)
         \o FlightsOfSection(Tail(section))

RECURSIVE extract_flights_from_sections(_)
extract_flights_from_sections(secs) ==
    IF secs = <<>> THEN <<>>
    ELSE FlightsOfSection(Head(secs)) \o extract_flights_from_sections(Tail(secs))

\* The FlightEvent of a flight line, or NoMatch (Python's None).
parse_flight_to_event(flight_line, ps, pe) ==
    LET match == FULL_FLIGHT_PATTERN(flight_line.text) IN
    IF ~match.matched THEN NoMatch
    ELSE [matched |-> TRUE,
          day_of_month |-> StrToInt(match.g1),
          day_of_week |-> match.g2,
          flight_no |-> match.g3,
          departure_airport |-> match.g4,
          departure_time |-> match.g5,
          arrival_time |-> match.g6,
          destination_airport |-> match.g7,
          period_start |-> ps,
          period_end |-> pe,
          departure_datetime |-> NoDatetime,
          arrival_datetime |-> NoDatetime,
          src |-> flight_line.src]

\* use_period_end of the cutoff branch: the previous record is events[-1],
\* the last record kept so far.
UsePeriodEndKept(i, kept, event) ==
    /\ i > 0
    /\ kept # <<>>
    /\ kept[Len(kept)].day_of_month > event.day_of_month

\* The loop with the slip of ending quietly at a record whose departure
\* cannot be resolved and returning the records kept so far: a variant for
\* the no-partial-success statement C15.
RECURSIVE ParseFlightsLoopPartial(_, _, _, _, _, _)
ParseFlightsLoopPartial(flight_lines, i, kept, ps, pe, cutoff) ==
    IF i >= Len(flight_lines) THEN [ok |-> TRUE, events |-> kept]
    ELSE LET event == parse_flight_to_event(flight_lines[i + 1], ps, pe) IN
         IF ~event.matched
         THEN ParseFlightsLoopPartial(flight_lines, i + 1, kept, ps, pe, cutoff)
         ELSE IF cutoff.ok
         THEN LET use_period_end == UsePeriodEndKept(i, kept, event)
                  departure_dt == get_departure_datetime(event, use_period_end)
              IN IF ~departure_dt.ok
                 THEN [ok |-> TRUE, events |-> kept]
                 ELSE IF DtLess(cutoff, departure_dt)
                 THEN ParseFlightsLoopPartial(flight_lines, i + 1,
                                              Append(kept, event), ps, pe, cutoff)
                 ELSE ParseFlightsLoopPartial(flight_lines, i + 1, kept, ps, pe,
                                              cutoff)
         ELSE ParseFlightsLoopPartial(flight_lines, i + 1, Append(kept, event),
                                      ps, pe, cutoff)

\* The loop `for i, flight_line in enumerate(flight_lines)` from i on, with
\* the list `events` built so far: the list returned, or the error raised.
\* i counts from 0 as in the code; flight_lines[i + 1] is the i-th line.
RECURSIVE ParseFlightsLoop(_, _, _, _, _, _)
ParseFlightsLoop(flight_lines, i, kept, ps, pe, cutoff) ==
    IF i >= Len(flight_lines) THEN [ok |-> TRUE, events |-> kept]
    ELSE LET event == parse_flight_to_event(flight_lines[i + 1], ps, pe) IN
         IF ~event.matched
         THEN ParseFlightsLoop(flight_lines, i + 1, kept, ps, pe, cutoff)
         ELSE IF cutoff.ok
         THEN LET use_period_end == UsePeriodEndKept(i, kept, event)
                  departure_dt == get_departure_datetime(event, use_period_end)
              IN IF ~departure_dt.ok
                 THEN [ok |-> FALSE, error |-> RosterParsingError]
                 ELSE IF DtLess(cutoff, departure_dt)
                 THEN ParseFlightsLoop(flight_lines, i + 1, Append(kept, event),
                                       ps, pe, cutoff)
                 ELSE ParseFlightsLoop(flight_lines, i + 1, kept, ps, pe, cutoff)
         ELSE ParseFlightsLoop(flight_lines, i + 1, Append(kept, event),
                               ps, pe, cutoff)

(***************************************************************************)
(* RosterParser.extract_work_sections as one call                          *)
(***************************************************************************)

\* The locals of extract_work_sections at the start of a call with the slip
\* of keeping them outside the call (class attributes, or mutable default
\* arguments): what the last call left is what the next one starts from.
\* A variant for the determinism statement C18.
ScanStartKept(left) == [left EXCEPT !.sections = <<>>]

\* sections = []; current_section = []; collecting = False;
\* current_day = None; current_weekday = None -- whatever an earlier call
\* left in its own locals.
ScanStart(left) ==
    [sections |-> <<>>, current_section |-> <<>>, collecting |-> FALSE,
     current_day |-> None, current_weekday |-> None]

\* `for line in lines[3:]` from position k on (positions count from 1).
\* The locals after a line are taken as a value (the one element of a set)
\* before the next line is read.
RECURSIVE ScanFrom(_, _, _)
ScanFrom(ls, k, seg) ==
    IF k > Len(ls) THEN seg
    ELSE CHOOSE end \in { ScanFrom(ls, k + 1, next) :
                            next \in { SegmentLine(seg, k, ls[k]) } } : TRUE

(***************************************************************************)
(* CalendarGenerator.create_ics_from_events                                *)
(***************************************************************************)

CalendarGenerationError == "CalendarGenerationError"

\* use_period_end for events[i] (i counts from 1 here, from 0 in the code).
UsePeriodEnd(evs, i) ==
    /\ i > 1
    /\ evs[i - 1].day_of_month > evs[i].day_of_month

(***************************************************************************)
(* Inputs                                                                  *)
(***************************************************************************)

\* The longest document (lines after the header) the parser is run on.
MaxDocLines == 4

\* The longest event list the calendar generator is run on.
MaxCalEvents == 4

HeaderLine0 == "Individual plan NetLine/Crew(LOT) printedbyCREWLINK 17Aug25 09:13Page1"

\* A period line as parse_period reads it: the two dates are the tokens at
\* index 1 and 2 of line.split(" ").
PeriodLine == "Period: 01Aug25 31Aug25"

\* Headers the parser accepts: three lines, or only the two it reads.
GoodHeaders ==
    { <<HeaderLine0, PeriodLine, "Name ID">>,
      <<HeaderLine0, PeriodLine>> }

\* Inputs whose header parse_period rejects: too few lines, too few tokens
\* on the period line, a token at index 1 or 2 that is no date; without and
\* with document lines after the header.
BadHeaders ==
    { <<>>,
      <<HeaderLine0>>,
      <<HeaderLine0, "Period: 01Aug25", "Name ID">>,
      <<HeaderLine0, "Period: 01Aug25 31Sep25", "Name ID">>,
      <<HeaderLine0, "Period: Aug25 31Aug25", "Name ID">>,
      <<HeaderLine0, "Period:  01Aug25 31Aug25", "Name ID">>,
      <<HeaderLine0, "Period: 01Aug25", "Name ID",
        "5. Tue C/I WAW", "LO 635 WAW 2055 2300 SOF E75", "6. Wed C/O WAW">>,
      <<HeaderLine0, "Period: 1Aug25 31-Aug-25", "Name ID",
        "5. Tue C/I WAW", "6. Wed LO 636 SOF 0220 0425 WAW E75", "6. Wed C/O WAW">>,
      <<HeaderLine0, "Individual plan 01Aug25 31Aug25", "Name ID",
        "5. Tue C/I WAW", "LO 635 WAW 2055 2300 SOF E75",
        "6. Wed LO 636 SOF 0220 0425 WAW E75", "6. Wed C/O WAW">> }

\* The document lines the scan is fed.
Vocabulary ==
    { "5. Tue C/I WAW",
      "29. Thu C/I WAW",
      "C/I WAW",
      "6. Wed C/O WAW",
      "LO 635 WAW 2055 2300 SOF E75",
      "6. Wed LO 636 SOF 0220 0425 WAW E75",
      "32. Mon LO 7 WAW 0000 0100 SOF",
      "LO 635",
      "H1 SOF" }

\* The days, periods and cutoffs of the event lists the generator is run on.
CalDays == {1, 2, 29, 30, 31}

CalPeriods ==
    { <<Datetime(2025, 8, 1, 0, 0), Datetime(2025, 9, 1, 0, 0)>>,
      <<Datetime(2025, 8, 1, 0, 0), Datetime(2025, 8, 31, 0, 0)>>,
      <<Datetime(2025, 1, 1, 0, 0), Datetime(2025, 2, 1, 0, 0)>> }

CalCutoffs ==
    { Datetime(2025, 7, 31, 0, 0),
      Datetime(2025, 8, 29, 23, 0) }

\* A FlightEvent as parse_flight_to_event builds it from the line
\* "<day>. Thu LO 635 WAW 2055 2300 SOF"; src is its position in the list.
CalEvent(day, ps, pe, i) ==
    [matched |-> TRUE,
     day_of_month |-> day,
     day_of_week |-> "Thu",
     flight_no |-> "635",
     departure_airport |-> "WAW",
     departure_time |-> "2055",
     arrival_time |-> "2300",
     destination_airport |-> "SOF",
     period_start |-> ps,
     period_end |-> pe,
     departure_datetime |-> NoDatetime,
     arrival_datetime |-> NoDatetime,
     src |-> i]

CalEventLists ==
    UNION { { [i \in 1..n |-> CalEvent(days[i], p[1], p[2], i)] :
              days \in [1..n -> CalDays], p \in CalPeriods } :
            n \in 0..MaxCalEvents }

\* Period lines for parse_period alone: two dates built from these days,
\* month names and years, after the first token.
PeriodDayTexts == {"01", "15", "31"}

PeriodMonthTexts == {"Jan", "Aug", "Sep", "Oct", "Dec"}

PeriodYearTexts == {"24", "25"}

PeriodDateTexts ==
    { d \o m \o y : d \in PeriodDayTexts, m \in PeriodMonthTexts,
                    y \in PeriodYearTexts }

PeriodInputs ==
    { <<HeaderLine0, "Period: " \o a \o " " \o b, "Name ID">> :
        a \in PeriodDateTexts, b \in PeriodDateTexts }

\* The longest document a whole call is run on.
MaxCallLines == 4

\* Whole calls: a period from August into September, and document lines
\* with a check-in on day 30, a bare flight, a flight on day 1, a check-out
\* and a layover line.
CallHeader == <<HeaderLine0, "Period: 01Aug25 01Sep25", "Name ID">>

CallVocabulary ==
    { "30. Sat C/I WAW",
      "LO 635 WAW 2055 2300 SOF E75",
      "1. Mon LO 636 SOF 0220 0425 WAW E75",
      "1. Mon C/O WAW",
      "H1 SOF" }

CallInputs ==
    UNION { { CallHeader \o doc : doc \in [1..n -> CallVocabulary] } :
            n \in 0..MaxCallLines }

CallCutoffs ==
    { NoDatetime,
      Datetime(2025, 7, 31, 0, 0),
      Datetime(2025, 8, 30, 23, 0) }

\* cutoff_datetime: None, or an instant.
Cutoffs ==
    { NoDatetime,
      Datetime(2025, 8, 5, 22, 0) }

(***************************************************************************)
(* State                                                                   *)
(***************************************************************************)

VARIABLES
    pc,               \* the call in progress
    lines,            \* the document, as far as the scan has read it
    period_start,     \* parse_flights_from_pdf_lines: locals
    period_end,
    sections,         \* extract_work_sections: locals
    current_section,
    collecting,
    current_day,
    current_weekday,
    flight_lines,     \* parse_flights_from_pdf_lines: locals
    cutoff_datetime,
    events,           \* the list returned (the generator's argument)
    result,           \* "pending", "returned" or the error raised
    cutoff_date,      \* create_ics_from_events: argument and locals
    gi,
    calendar,
    first_call,       \* what an earlier call on the same input returned
    pdf_file,         \* process_roster_pdf: the uploaded file
    st_log,           \* the st.write / st.error messages, in order
    min_cutoff_datetime,  \* process_roster_pdf: local
    app_events,       \* process_roster_pdf: the list it returned
    session_events,   \* main: st.session_state.events
    filtered_events,  \* main: the list the re-filter loop builds
    same_list,        \* filtered_events is the list object session_events
    fi                \* the re-filter loop: elements iterated so far

parser_vars ==
    <<lines, period_start, period_end, sections, current_section, collecting,
      current_day, current_weekday, flight_lines, cutoff_datetime>>

segmenter_vars ==
    <<sections, current_section, collecting, current_day, current_weekday>>

generator_vars == <<cutoff_date, gi, calendar>>

refilter_vars == <<session_events, filtered_events, same_list, fi>>

app_vars ==
    <<pdf_file, st_log, min_cutoff_datetime, app_events, refilter_vars>>

vars ==
    <<pc, parser_vars, events, result, generator_vars, first_call, app_vars>>

\* The locals of extract_work_sections as one record.
Seg ==
    [sections |-> sections, current_section |-> current_section,
     collecting |-> collecting, current_day |-> current_day,
     current_weekday |-> current_weekday]

ParserLocalsInit ==
    /\ period_start = NoDatetime
    /\ period_end = NoDatetime
    /\ sections = <<>>
    /\ current_section = <<>>
    /\ collecting = FALSE
    /\ current_day = None
    /\ current_weekday = None
    /\ flight_lines = <<>>
    /\ cutoff_datetime = NoDatetime

GeneratorIdle ==
    /\ cutoff_date = NoDatetime
    /\ gi = 0
    /\ calendar = <<>>

\* No earlier call, and no upload being processed.
NoCall == [made |-> FALSE]

NoFile == [uploaded |-> FALSE]

NotReturned == [returned |-> FALSE]

\* st.session_state.events = [] (main, at the first run), no loop running.
RefilterIdle ==
    /\ session_events = <<>>
    /\ filtered_events = <<>>
    /\ same_list = FALSE
    /\ fi = 0

AppIdle ==
    /\ first_call = NoCall
    /\ pdf_file = NoFile
    /\ st_log = <<>>
    /\ min_cutoff_datetime = NoDatetime
    /\ app_events = NotReturned
    /\ RefilterIdle

\* parse_flights_from_pdf_lines is called on a document.
Init ==
    /\ pc = "parse_period"
    /\ lines \in GoodHeaders \cup BadHeaders
    /\ ParserLocalsInit
    /\ events = <<>>
    /\ result = "pending"
    /\ GeneratorIdle
    /\ AppIdle

(***************************************************************************)
(* RosterParser.parse_flights_from_pdf_lines, call by call                 *)
(***************************************************************************)

\* period_start, period_end = cls.parse_period(lines)
ParsePeriod ==
    /\ pc = "parse_period"
    /\ LET p == parse_period(lines) IN
       IF p.ok
       THEN /\ period_start' = p.period_start
            /\ period_end' = p.period_end
            /\ pc' = "extract_work_sections"
            /\ result' = result
       ELSE /\ pc' = "done"
            /\ result' = p.error
            /\ UNCHANGED <<period_start, period_end>>
    /\ UNCHANGED <<lines, segmenter_vars, flight_lines, cutoff_datetime, events,
                   generator_vars, first_call, app_vars>>

\* One iteration of `for line in lines[3:]`: the next document line is read.
ScanLine(line) ==
    /\ pc = "extract_work_sections"
    /\ Len(lines) >= 3
    /\ Len(lines) < 3 + MaxDocLines
    /\ lines' = Append(lines, line)
    /\ LET seg == SegmentLine(Seg, Len(lines) + 1, line) IN
       /\ sections' = seg.sections
       /\ current_section' = seg.current_section
       /\ collecting' = seg.collecting
       /\ current_day' = seg.current_day
       /\ current_weekday' = seg.current_weekday
    /\ UNCHANGED <<pc, period_start, period_end, flight_lines, cutoff_datetime,
                   events, result, generator_vars, first_call, app_vars>>

\* The lines are exhausted: extract_work_sections returns.
EndOfLines ==
    /\ pc = "extract_work_sections"
    /\ sections' = ReturnedSections(sections, current_section)
    /\ pc' = "extract_flights"
    /\ UNCHANGED <<lines, period_start, period_end, current_section, collecting,
                   current_day, current_weekday, flight_lines, cutoff_datetime,
                   events, result, generator_vars, first_call, app_vars>>

\* flight_lines = cls.extract_flights_from_sections(sections)
ExtractFlights ==
    /\ pc = "extract_flights"
    /\ flight_lines' = extract_flights_from_sections(sections)
    /\ pc' = "parse_flights"
    /\ UNCHANGED <<lines, period_start, period_end, segmenter_vars,
                   cutoff_datetime, events, result, generator_vars, first_call, app_vars>>

\* The loop over flight_lines and the return (or the raise) that ends the call.
ParseFlights(cutoff) ==
    /\ pc = "parse_flights"
    /\ cutoff_datetime' = cutoff
    /\ LET r == ParseFlightsLoop(flight_lines, 0, <<>>, period_start, period_end,
                                 cutoff)
       IN IF r.ok
          THEN events' = r.events /\ result' = "returned"
          ELSE events' = <<>> /\ result' = r.error
    /\ pc' = "done"
    /\ UNCHANGED <<lines, period_start, period_end, segmenter_vars, flight_lines,
                   generator_vars, first_call, app_vars>>

Next ==
    \/ ParsePeriod
    \/ \E line \in Vocabulary : ScanLine(line)
    \/ EndOfLines
    \/ ExtractFlights
    \/ \E cutoff \in Cutoffs : ParseFlights(cutoff)

Spec == Init /\ [][Next]_vars

(***************************************************************************)
(* CalendarGenerator.create_ics_from_events, record by record              *)
(***************************************************************************)

\* create_ics_from_events is called on a list of events.
InitCal ==
    /\ pc = "create_ics_from_events"
    /\ lines = <<>>
    /\ ParserLocalsInit
    /\ events \in CalEventLists
    /\ result = "pending"
    /\ cutoff_date \in CalCutoffs
    /\ gi = 0
    /\ calendar = <<>>
    /\ AppIdle

\* One iteration of `for i, flight in enumerate(events)`; gi is i.
CreateIcsStep ==
    /\ pc = "create_ics_from_events"
    /\ gi < Len(events)
    /\ LET flight == events[gi + 1]
           use_period_end == UsePeriodEnd(events, gi + 1)
           departure_dt == get_departure_datetime(flight, use_period_end)
           arrival_dt == get_arrival_datetime(flight, use_period_end)
       IN IF ~departure_dt.ok \/ ~arrival_dt.ok
          THEN /\ result' = CalendarGenerationError
               /\ pc' = "done"
               /\ UNCHANGED <<gi, calendar>>
          ELSE /\ gi' = gi + 1
               /\ calendar' =
                    IF ~DtLess(cutoff_date, departure_dt) THEN calendar
                    ELSE Append(calendar,
                                [begin |-> departure_dt, end |-> arrival_dt,
                                 src |-> flight.src])
               /\ UNCHANGED <<pc, result>>
    /\ UNCHANGED <<parser_vars, events, cutoff_date, first_call, app_vars>>

\* return calendar.serialize()
CreateIcsReturn ==
    /\ pc = "create_ics_from_events"
    /\ gi = Len(events)
    /\ result' = "returned"
    /\ pc' = "done"
    /\ UNCHANGED <<parser_vars, events, generator_vars, first_call, app_vars>>

NextCal ==
    \/ CreateIcsStep
    \/ CreateIcsReturn

SpecCal == InitCal /\ [][NextCal]_vars

(***************************************************************************)
(* create_ics_from_events on flights of several departure and arrival      *)
(* times                                                                   *)
(***************************************************************************)

MaxTimedEvents == 2

\* Departure and arrival HHMM of a flight: within the day, and over midnight.
CalTimes == { <<"2055", "2300">>, <<"2330", "0130">>, <<"0600", "0805">> }

CalTimedEvent(day, ps, pe, times, i) ==
    [CalEvent(day, ps, pe, i) EXCEPT !.departure_time = times[1],
                                     !.arrival_time = times[2]]

CalTimedEventLists ==
    UNION { { [i \in 1..n |-> CalTimedEvent(days[i], p[1], p[2], times[i], i)] :
              days \in [1..n -> CalDays], times \in [1..n -> CalTimes],
              p \in CalPeriods } :
            n \in 0..MaxTimedEvents }

InitCalTimes ==
    /\ pc = "create_ics_from_events"
    /\ lines = <<>>
    /\ ParserLocalsInit
    /\ events \in CalTimedEventLists
    /\ result = "pending"
    /\ cutoff_date \in CalCutoffs
    /\ gi = 0
    /\ calendar = <<>>
    /\ AppIdle

NextCalTimes == CreateIcsStep \/ CreateIcsReturn

SpecCalTimes == InitCalTimes /\ [][NextCalTimes]_vars

(***************************************************************************)
(* extract_work_sections on lines that exercise the segmenter              *)
(***************************************************************************)

\* Check-in lines with and without the day prefix, a check-out line, a line
\* with both markers, a bare and a fully-qualified flight line, another line.
SegVocabulary ==
    { "5. Tue C/I WAW",
      "C/I WAW",
      "6. Wed C/O WAW",
      "7. Thu C/I WAW C/O",
      "LO 635 WAW 2055 2300 SOF E75",
      "8. Fri LO 636 SOF 0220 0425 WAW E75",
      "H1 SOF" }

InitSeg ==
    /\ pc = "parse_period"
    /\ lines = <<HeaderLine0, PeriodLine, "Name ID">>
    /\ ParserLocalsInit
    /\ events = <<>>
    /\ result = "pending"
    /\ GeneratorIdle
    /\ AppIdle

NextSeg ==
    \/ ParsePeriod
    \/ \E line \in SegVocabulary : ScanLine(line)
    \/ EndOfLines

SpecSeg == InitSeg /\ [][NextSeg]_vars

(***************************************************************************)
(* RosterParser.parse_period on the period lines of PeriodInputs           *)
(***************************************************************************)

InitPeriod ==
    /\ pc = "parse_period"
    /\ lines \in PeriodInputs
    /\ ParserLocalsInit
    /\ events = <<>>
    /\ result = "pending"
    /\ GeneratorIdle
    /\ AppIdle

NextPeriod == ParsePeriod

SpecPeriod == InitPeriod /\ [][NextPeriod]_vars

(***************************************************************************)
(* Two calls of parse_flights_from_pdf_lines on the same lines             *)
(***************************************************************************)

\* parse_flights_from_pdf_lines is called on a whole document.
InitCall ==
    /\ pc = "parse_period"
    /\ lines \in CallInputs
    /\ ParserLocalsInit
    /\ events = <<>>
    /\ result = "pending"
    /\ GeneratorIdle
    /\ AppIdle

\* sections = cls.extract_work_sections(lines): the whole scan and its
\* return.
ScanAll ==
    /\ pc = "extract_work_sections"
    /\ \E seg \in { ScanFrom(lines, 4, ScanStart(Seg)) } :
          /\ sections' = ReturnedSections(seg.sections, seg.current_section)
          /\ current_section' = seg.current_section
          /\ collecting' = seg.collecting
          /\ current_day' = seg.current_day
          /\ current_weekday' = seg.current_weekday
    /\ pc' = "extract_flights"
    /\ UNCHANGED <<lines, period_start, period_end, flight_lines,
                   cutoff_datetime, events, result, generator_vars,
                   first_call, app_vars>>

\* The first call has ended; the caller keeps what it gave and calls again
\* on the same lines.  The new call has its own period_start, period_end,
\* flight_lines and events; the locals of extract_work_sections are left as
\* the first call left them until the new scan starts.
CallAgain ==
    /\ pc = "done"
    /\ ~first_call.made
    /\ first_call' = [made |-> TRUE, cutoff_datetime |-> cutoff_datetime,
                      sections |-> sections, flight_lines |-> flight_lines,
                      events |-> events, result |-> result]
    /\ pc' = "parse_period"
    /\ period_start' = NoDatetime
    /\ period_end' = NoDatetime
    /\ flight_lines' = <<>>
    /\ cutoff_datetime' = NoDatetime
    /\ events' = <<>>
    /\ result' = "pending"
    /\ UNCHANGED <<lines, segmenter_vars, generator_vars, app_vars>>

NextCall ==
    \/ ParsePeriod
    \/ ScanAll
    \/ ExtractFlights
    \/ \E cutoff \in CallCutoffs : ParseFlights(cutoff)
    \/ CallAgain

SpecCall == InitCall /\ [][NextCall]_vars

(***************************************************************************)
(* PDFProcessor and process_roster_pdf (src/app.py)                        *)
(***************************************************************************)

InvalidFileError == "InvalidFileError"
FileSizeError == "FileSizeError"
PDFProcessingError == "PDFProcessingError"

\* InvalidFileError and FileSizeError are subclasses of PDFProcessingError:
\* what `except PDFProcessingError` catches.
IsPDFProcessingError(e) ==
    e \in {PDFProcessingError, InvalidFileError, FileSizeError}

MAX_FILE_SIZE == 50 * 1024 * 1024

\* The lines of the pages from page k on.  A page is given by the lines its
\* text splits into on "\n"; a page whose extract_text raises is skipped,
\* and so is a page with no text.
RECURSIVE PageLines(_, _)
PageLines(pages, k) ==
    IF k > Len(pages) THEN <<>>
    ELSE (IF pages[k].raises THEN <<>> ELSE pages[k].page_text)
             \o PageLines(pages, k + 1)

\* extract_text_from_pdf.  An InvalidFileError raised for a file without
\* pages is raised inside the `try` and leaves as PDFProcessingError, like
\* the error of a file pdfplumber cannot open.
extract_text_from_pdf(file) ==
    IF file.size > MAX_FILE_SIZE THEN [ok |-> FALSE, error |-> FileSizeError]
    ELSE IF ~file.opens THEN [ok |-> FALSE, error |-> PDFProcessingError]
    ELSE IF Len(file.pages) = 0
    THEN [ok |-> FALSE, error |-> PDFProcessingError]
    ELSE CHOOSE r \in
           { IF extracted = <<>>
             THEN [ok |-> FALSE, error |-> InvalidFileError]
             ELSE [ok |-> TRUE, lines |-> extracted] :
               extracted \in { PageLines(file.pages, 1) } } : TRUE

\* validate_pdf_structure without its test for the markers.
validate_pdf_structure_length_only(ls) ==
    IF Len(ls) < 3 THEN [ok |-> FALSE, error |-> InvalidFileError]
    ELSE [ok |-> TRUE]

\* validate_pdf_structure looking for the markers from index 3 on only.
validate_pdf_structure_past_header(ls) ==
    IF Len(ls) < 3 THEN [ok |-> FALSE, error |-> InvalidFileError]
    ELSE IF ~ \E i \in 4..Len(ls) :
                 Contains(ls[i], "C/I") \/ Contains(ls[i], "C/O")
    THEN [ok |-> FALSE, error |-> InvalidFileError]
    ELSE [ok |-> TRUE]

validate_pdf_structure(ls) ==
    IF Len(ls) < 3 THEN [ok |-> FALSE, error |-> InvalidFileError]
    ELSE IF ~ \E i \in 1..Len(ls) :
                 Contains(ls[i], "C/I") \/ Contains(ls[i], "C/O")
    THEN [ok |-> FALSE, error |-> InvalidFileError]
    ELSE [ok |-> TRUE]

\* st.write(msg) and st.error(msg); arg is the value formatted into the
\* message: a count, or the exception reported.
Written(msg, arg) == [kind |-> "write", msg |-> msg, arg |-> arg]

Reported(msg, arg) == [kind |-> "error", msg |-> msg, arg |-> arg]

\* The three `except` clauses of process_roster_pdf, for exception e.
ErrorReport(e) ==
    IF IsPDFProcessingError(e) THEN Reported("PDF Processing Error", e)
    ELSE IF e = RosterParsingError THEN Reported("Roster Parsing Error", e)
    ELSE Reported("Unexpected error", e)

\* What follows the parser's return in process_roster_pdf, as the exception
\* it ends with.  `events, min_cutoff_datetime = <list>` raises ValueError
\* unless the list has two elements; with two, min_cutoff_datetime is a
\* FlightEvent, and the comparison with the cutoff raises TypeError, or,
\* without a cutoff, min_cutoff_datetime.strftime raises AttributeError.
AfterUnpack(parsed, cutoff) ==
    IF Len(parsed) # 2 THEN "ValueError"
    ELSE IF cutoff # NoDatetime THEN "TypeError"
    ELSE "AttributeError"

\* Uploaded files.
MaxPages == 2

PageTexts ==
    { <<>>,
      <<HeaderLine0, "Period: 01Aug25 01Sep25">>,
      CallHeader,
      CallHeader \o <<"30. Sat C/I WAW", "LO 635 WAW 2055 2300 SOF E75">>,
      <<"1. Mon LO 636 SOF 0220 0425 WAW E75", "1. Mon C/O WAW">>,
      <<HeaderLine0, "Period:", "1. Mon C/I WAW">>,
      <<HeaderLine0, "Period: 01Aug25 01Sep25", "1. Mon C/I WAW">> }

Pages ==
    { [raises |-> FALSE, page_text |-> t] : t \in PageTexts }
        \cup { [raises |-> TRUE, page_text |-> CallHeader] }

PageLists == UNION { [1..n -> Pages] : n \in 0..MaxPages }

UploadedFiles ==
    { [uploaded |-> TRUE, size |-> s, opens |-> o, pages |-> p] :
        s \in {1024, MAX_FILE_SIZE + 1}, o \in BOOLEAN, p \in PageLists }

AppCutoffs == {NoDatetime, Datetime(2025, 8, 30, 0, 0)}

InitApp ==
    /\ pc = "app_extract"
    /\ lines = <<>>
    /\ ParserLocalsInit
    /\ events = <<>>
    /\ result = "pending"
    /\ GeneratorIdle
    /\ first_call = NoCall
    /\ pdf_file \in UploadedFiles
    /\ st_log = <<>>
    /\ min_cutoff_datetime = NoDatetime
    /\ app_events = NotReturned
    /\ RefilterIdle

\* st.write("Extracting text from PDF..."),
\* lines = PDFProcessor.extract_text_from_pdf(pdf_file)
ExtractText ==
    /\ pc = "app_extract"
    /\ \E r \in { extract_text_from_pdf(pdf_file) } :
          IF r.ok
          THEN /\ lines' = r.lines
               /\ st_log' = st_log \o
                     << Written("Extracting text from PDF...", None),
                        Written("Extracted lines from PDF", Len(r.lines)) >>
               /\ pc' = "app_validate"
               /\ UNCHANGED app_events
          ELSE /\ st_log' = st_log \o
                     << Written("Extracting text from PDF...", None),
                        ErrorReport(r.error) >>
               /\ app_events' = [returned |-> TRUE, events |-> <<>>]
               /\ pc' = "app_done"
               /\ UNCHANGED lines
    /\ UNCHANGED <<period_start, period_end, segmenter_vars, flight_lines,
                   cutoff_datetime, events, result, generator_vars,
                   first_call, pdf_file, min_cutoff_datetime, refilter_vars>>

\* Validate with the outcome of validate_pdf_structure ignored.
ValidateUnchecked ==
    /\ pc = "app_validate"
    /\ st_log' = st_log \o
          << Written("Validating PDF structure...", None),
             Written("PDF structure validation passed", None) >>
    /\ pc' = "app_parse"
    /\ UNCHANGED <<parser_vars, events, result, generator_vars, first_call,
                   pdf_file, min_cutoff_datetime, app_events, refilter_vars>>

\* st.write("Validating PDF structure..."),
\* PDFProcessor.validate_pdf_structure(lines)
Validate ==
    /\ pc = "app_validate"
    /\ \E r \in { validate_pdf_structure(lines) } :
          IF r.ok
          THEN /\ st_log' = st_log \o
                     << Written("Validating PDF structure...", None),
                        Written("PDF structure validation passed", None) >>
               /\ pc' = "app_parse"
               /\ UNCHANGED app_events
          ELSE /\ st_log' = st_log \o
                     << Written("Validating PDF structure...", None),
                        ErrorReport(r.error) >>
               /\ app_events' = [returned |-> TRUE, events |-> <<>>]
               /\ pc' = "app_done"
    /\ UNCHANGED <<parser_vars, events, result, generator_vars, first_call,
                   pdf_file, min_cutoff_datetime, refilter_vars>>

\* st.write("Parsing flights from PDF..."), and the call
\* RosterParser.parse_flights_from_pdf_lines(lines) begins.
InvokeParser ==
    /\ pc = "app_parse"
    /\ st_log' = Append(st_log, Written("Parsing flights from PDF...", None))
    /\ pc' = "parse_period"
    /\ UNCHANGED <<parser_vars, events, result, generator_vars, first_call,
                   pdf_file, min_cutoff_datetime, app_events, refilter_vars>>

\* The parser's call has ended: the rest of process_roster_pdf, called with
\* cutoff.
AfterParse(cutoff) ==
    /\ pc = "done"
    /\ IF result = RosterParsingError
       THEN /\ st_log' = Append(st_log, ErrorReport(RosterParsingError))
            /\ UNCHANGED min_cutoff_datetime
       ELSE /\ st_log' = Append(st_log, ErrorReport(AfterUnpack(events, cutoff)))
            /\ min_cutoff_datetime' =
                  IF Len(events) = 2 THEN events[2] ELSE min_cutoff_datetime
    /\ app_events' = [returned |-> TRUE, events |-> <<>>]
    /\ pc' = "app_done"
    /\ UNCHANGED <<parser_vars, events, result, generator_vars, first_call,
                   pdf_file, refilter_vars>>

NextApp ==
    \/ ExtractText
    \/ Validate
    \/ InvokeParser
    \/ ParsePeriod
    \/ ScanAll
    \/ ExtractFlights
    \/ ParseFlights(NoDatetime)
    \/ \E cutoff \in AppCutoffs : AfterParse(cutoff)

SpecApp == InitApp /\ [][NextApp]_vars

(***************************************************************************)
(* main (src/app.py): the re-filter loop over the cached events            *)
(***************************************************************************)

\* The calendar date (year, month, day) an instant shows in Warsaw time, the
\* zone the resolved datetimes are in.
DateOf(dt) ==
    LET local == WarsawLocal(dt) IN <<local.year, local.month, local.day>>

\* Date a is not after date b (dates as <<year, month, day>>).
DateLeq(a, b) ==
    \/ a[1] < b[1]
    \/ a[1] = b[1] /\ a[2] < b[2]
    \/ a[1] = b[1] /\ a[2] = b[2] /\ a[3] <= b[3]

\* FlightEvent.set_departure_datetime: the record with its departure
\* instant set.
set_departure_datetime(ev, use_period_end) ==
    [ev EXCEPT !.departure_datetime =
        ResolveInstant(IF use_period_end THEN ev.period_end
                       ELSE ev.period_start,
                       ev.day_of_month, ev.departure_time)]

\* The longest cached list, and the most elements the loop is followed
\* through appending to the list it iterates.
MaxCached == 3

MaxAppended == 3

CachedDays == {29, 30, 31}

CachedEvent(day, i) ==
    set_departure_datetime(
        CalEvent(day, Datetime(2025, 8, 1, 0, 0), Datetime(2025, 8, 31, 0, 0), i),
        FALSE)

\* The cache is looked at only when it is not empty.
CachedLists ==
    UNION { { [i \in 1..n |-> CachedEvent(days[i], i)] :
              days \in [1..n -> CachedDays] } :
            n \in 1..MaxCached }

\* cutoff_datetime of main: None, or midnight in Europe/Warsaw of the
\* cutoff date 2025-08-30, as the instant it is.
MainCutoffs == { NoDatetime, Datetime(2025, 8, 29, 22, 0) }

\* (cutoff_datetime is not None) and
\* (departure_dt.date() >= cutoff_datetime.date())
PassesCutoff(event, cutoff) ==
    /\ cutoff # NoDatetime
    /\ DateLeq(DateOf(cutoff), DateOf(event.departure_datetime))

\* main has stored the list `events` in st.session_state.events and reaches
\* `filtered_events = []`.
InitRefilter ==
    /\ pc = "refilter"
    /\ lines = <<>>
    /\ period_start = NoDatetime
    /\ period_end = NoDatetime
    /\ sections = <<>>
    /\ current_section = <<>>
    /\ collecting = FALSE
    /\ current_day = None
    /\ current_weekday = None
    /\ flight_lines = <<>>
    /\ cutoff_datetime \in MainCutoffs
    /\ events \in CachedLists
    /\ result = "pending"
    /\ GeneratorIdle
    /\ first_call = NoCall
    /\ pdf_file = NoFile
    /\ st_log = <<>>
    /\ min_cutoff_datetime = NoDatetime
    /\ app_events = NotReturned
    /\ session_events = events
    /\ filtered_events = <<>>
    /\ same_list = FALSE
    /\ fi = 0

\* One iteration of `for event in st.session_state.events`.  After
\* `filtered_events = st.session_state.events` the two names are one list:
\* filtered_events.append(event) appends to the list being iterated.
RefilterStep ==
    /\ pc = "refilter"
    /\ fi < Len(session_events)
    /\ \E event \in { session_events[fi + 1] } :
          IF PassesCutoff(event, cutoff_datetime)
          THEN IF same_list
               THEN /\ Len(session_events) < MaxCached + MaxAppended
                    /\ session_events' = Append(session_events, event)
                    /\ filtered_events' = Append(session_events, event)
                    /\ UNCHANGED same_list
               ELSE /\ filtered_events' = Append(filtered_events, event)
                    /\ UNCHANGED <<session_events, same_list>>
          ELSE /\ filtered_events' = session_events
               /\ same_list' = TRUE
               /\ UNCHANGED session_events
    /\ fi' = fi + 1
    /\ UNCHANGED <<pc, parser_vars, events, result, generator_vars,
                   first_call, pdf_file, st_log, min_cutoff_datetime,
                   app_events>>

\* The iterator is exhausted.
RefilterEnd ==
    /\ pc = "refilter"
    /\ fi = Len(session_events)
    /\ pc' = "refilter_done"
    /\ UNCHANGED <<parser_vars, events, result, generator_vars, first_call,
                   app_vars>>

NextRefilter == RefilterStep \/ RefilterEnd

SpecRefilter == InitRefilter /\ [][NextRefilter]_vars

\* The loop is not suspended: an iteration that can be made is made.
SpecRefilterFair == SpecRefilter /\ WF_vars(NextRefilter)

(***************************************************************************)
(* Statements                                                              *)
(***************************************************************************)

\* The days of a list of events, in order.
DaysOf(evs) == [i \in 1..Len(evs) |-> evs[i].day_of_month]

\* Some record at or before position i has a smaller day than its predecessor.
DropAtOrBefore(evs, i) ==
    \E j \in 2..i : evs[j - 1].day_of_month > evs[j].day_of_month

\* C1: rollover is sticky.  Walking the records in order, record i is
\* resolved against period_end exactly when the day has dropped at some
\* record at or before i; once flipped, the anchor never returns to
\* period_start.  Stated of every record the generator's walk has decided.
C1_RolloverSticky ==
    \A i \in 1..Len(events) :
        i <= gi => (UsePeriodEnd(events, i) <=> DropAtOrBefore(events, i))

\* C2: the records with days 29, 30, 1, 2 against the period 2025-08-01 ..
\* 2025-09-01 are dated 2025-08-29, 2025-08-30, 2025-09-01, 2025-09-02.
C2_RolloverScenario ==
    ( /\ pc = "done"
      /\ result = "returned"
      /\ DaysOf(events) = <<29, 30, 1, 2>>
      /\ events[1].period_start = Datetime(2025, 8, 1, 0, 0)
      /\ events[1].period_end = Datetime(2025, 9, 1, 0, 0)
      /\ cutoff_date = Datetime(2025, 7, 31, 0, 0) )
    => /\ Len(calendar) = 4
       /\ DateOf(calendar[1].begin) = <<2025, 8, 29>>
       /\ DateOf(calendar[2].begin) = <<2025, 8, 30>>
       /\ DateOf(calendar[3].begin) = <<2025, 9, 1>>
       /\ DateOf(calendar[4].begin) = <<2025, 9, 2>>

(***************************************************************************)
(* Statements about the parser, in terms of the document `lines` alone     *)
(***************************************************************************)

\* The positions of the document lines (the header is lines[1..3]).
DocPositions == 4..Len(lines)

IsCheckInLine(line) == Contains(line, "C/I")
IsCheckOutLine(line) == Contains(line, "C/O")
IsMarkerLine(line) == IsCheckInLine(line) \/ IsCheckOutLine(line)

\* The position of the last Workday-start line at or before k, 0 if none.
ContextPos(k) ==
    IF \E j \in 4..k : WORKDAY_PATTERN(lines[j]).matched
    THEN CHOOSE j \in 4..k :
            /\ WORKDAY_PATTERN(lines[j]).matched
            /\ \A h \in (j + 1)..k : ~WORKDAY_PATTERN(lines[h]).matched
    ELSE 0

ContextDay(k) == WORKDAY_PATTERN(lines[ContextPos(k)]).g1
ContextWeekday(k) == WORKDAY_PATTERN(lines[ContextPos(k)]).g2

\* Line k as written, or with the date prefix of its context when it is a
\* bare flight line.
AsWrittenOrRepaired(k) ==
    IF FLIGHT_PATTERN(lines[k]).matched /\ ContextPos(k) > 0
    THEN ContextDay(k) \o ". " \o ContextWeekday(k) \o " " \o lines[k]
    ELSE lines[k]

\* Line k lies between a check-in marker line and the first check-out
\* marker line after it (the markers included).
InCompletedSection(k) ==
    \E ci \in 4..k : \E co \in k..Len(lines) :
        /\ IsCheckInLine(lines[ci])
        /\ IsCheckOutLine(lines[co])
        /\ \A j \in (ci + 1)..(co - 1) : ~IsCheckOutLine(lines[j])

CountedLines ==
    { k \in DocPositions :
        InCompletedSection(k) /\ FULL_FLIGHT_PATTERN(AsWrittenOrRepaired(k)).matched }

EventSources == { events[i].src : i \in 1..Len(events) }

\* The call has returned its list and no cutoff was given.
ReturnedNoCutoff ==
    pc = "done" /\ result = "returned" /\ cutoff_datetime = NoDatetime

\* C3: with a valid header and no cutoff, the records returned are, one
\* each, the document lines inside a completed check-in .. check-out span
\* that match the full flight pattern as written or after prefix repair.
C3_RecordCount ==
    ReturnedNoCutoff =>
        /\ Len(events) = Cardinality(CountedLines)
        /\ EventSources = CountedLines

\* A check-in marker line after which no marker line follows: the section
\* it opens is still open at the end of the lines.
TrailingOpenAt(p) ==
    /\ p \in DocPositions
    /\ IsCheckInLine(lines[p])
    /\ \A j \in (p + 1)..Len(lines) : ~IsMarkerLine(lines[j])

ScanReturned == pc \in {"extract_flights", "parse_flights", "done"}

\* C4: an unterminated trailing section is discarded.  Neither the last
\* check-in marker line nor any line after it appears in a returned
\* section, a flight line or a record, and the call is not failed for it.
C4_TrailingSectionDiscarded ==
    \A p \in DocPositions :
        (ScanReturned /\ TrailingOpenAt(p)) =>
            /\ \A s \in 1..Len(sections) : \A e \in 1..Len(sections[s]) :
                   sections[s][e].src < p
            /\ \A f \in 1..Len(flight_lines) : flight_lines[f].src < p
            /\ \A i \in 1..Len(events) : events[i].src < p
            /\ (pc = "done" /\ cutoff_datetime = NoDatetime) => result = "returned"

\* C4 witness: the call returned with an earlier completed section, and a
\* full flight line was collected into the section left open.
C4_Witness ==
    /\ ReturnedNoCutoff
    /\ sections # <<>>
    /\ \E p \in DocPositions :
          /\ TrailingOpenAt(p)
          /\ \E k \in (p + 1)..Len(lines) :
                /\ FULL_FLIGHT_PATTERN(lines[k]).matched
                /\ \E c \in 1..Len(current_section) : current_section[c].src = k

BareExample == "LO 635 WAW 2055 2300 SOF E75"

\* C5, the scan step: while collecting with a day/weekday context, a line
\* without a marker is appended to the open section, a bare flight line as
\* "<day>. <weekday> " followed by the line, any other line unchanged.
C5_AppendStep ==
    ( /\ pc = "extract_work_sections"
      /\ Len(lines') = Len(lines) + 1
      /\ collecting
      /\ current_day # None
      /\ current_weekday # None
      /\ ~IsMarkerLine(lines'[Len(lines')]) )
    => LET line == lines'[Len(lines')] IN
       /\ current_section' =
            Append(current_section,
                   [src |-> Len(lines'),
                    text |-> IF LitAt(line, 1, "LO ") /\ IsDigit(Ch(line, 4))
                             THEN current_day \o ". " \o current_weekday \o " " \o line
                             ELSE line])
       /\ sections' = sections
       /\ collecting'

\* C5, the record: a record made from a bare flight line carries the day and
\* weekday of its context, and the example line gives flight 635,
\* WAW 2055 -> 2300 SOF.
C5_RepairedRecord ==
    \A i \in 1..Len(events) :
        LET e == events[i] IN
        LitAt(lines[e.src], 1, "LO ") =>
            /\ ContextPos(e.src) > 0
            /\ e.day_of_month = StrToInt(ContextDay(e.src))
            /\ e.day_of_week = ContextWeekday(e.src)
            /\ lines[e.src] = BareExample =>
                  /\ e.flight_no = "635"
                  /\ e.departure_airport = "WAW"
                  /\ e.departure_time = "2055"
                  /\ e.arrival_time = "2300"
                  /\ e.destination_airport = "SOF"

\* C5: date-prefix repair.
C5_DatePrefixRepair == [][C5_AppendStep]_vars /\ []C5_RepairedRecord

\* C5 witness: the example line under the context (29, Thu) became the
\* record of day 29, Thu.
C5_Witness ==
    /\ ReturnedNoCutoff
    /\ \E i \in 1..Len(events) :
          /\ lines[events[i].src] = BareExample
          /\ ContextDay(events[i].src) = "29"
          /\ ContextWeekday(events[i].src) = "Thu"
          /\ events[i].day_of_month = 29
          /\ events[i].day_of_week = "Thu"
          /\ events[i].flight_no = "635"

\* The document of the end-to-end scenario.
ScenarioDoc ==
    << "5. Tue C/I WAW",
       "LO 635 WAW 2055 2300 SOF E75",
       "6. Wed LO 636 SOF 0220 0425 WAW E75",
       "6. Wed C/O WAW" >>

\* `lines` is three header lines, the second one being periodLine, followed
\* by the scenario's document.
IsScenario(periodLine) ==
    /\ Len(lines) = 7
    /\ lines[2] = periodLine
    /\ SubSeq(lines, 4, 7) = ScenarioDoc

\* What the scenario is to return: the period 2025-08-01 .. 2025-08-31 and
\* two records, flight 635 dated 2025-08-05 and flight 636 dated 2025-08-06,
\* neither of them resolved against period_end.
ScenarioOutcome ==
    /\ result = "returned"
    /\ period_start = Datetime(2025, 8, 1, 0, 0)
    /\ period_end = Datetime(2025, 8, 31, 0, 0)
    /\ Len(events) = 2
    /\ events[1].flight_no = "635"
    /\ events[2].flight_no = "636"
    /\ ~UsePeriodEnd(events, 1)
    /\ ~UsePeriodEnd(events, 2)
    /\ DateOf(get_departure_datetime(events[1], UsePeriodEnd(events, 1)))
         = <<2025, 8, 5>>
    /\ DateOf(get_departure_datetime(events[2], UsePeriodEnd(events, 2)))
         = <<2025, 8, 6>>

C7_SectionsFramed ==
    ScanReturned =>
        \A s \in 1..Len(sections) :
            /\ IsCheckInLine(sections[s][1].text)
            /\ IsCheckOutLine(sections[s][Len(sections[s])].text)

\* The header is malformed: fewer than two lines, or fewer than three
\* tokens on the period line, or a token at index 1 or 2 that is no date.
MalformedHeader ==
    \/ Len(lines) < 2
    \/ LET tokens == Split(lines[2]) IN
       \/ Len(tokens) < 3
       \/ ~Strptime(tokens[2]).ok
       \/ ~Strptime(tokens[3]).ok

\* C8: a malformed header aborts the parse.  Past parse_period the call has
\* ended with RosterParsingError, and no section, flight line or record was
\* made, whatever the document holds.
C8_MalformedHeaderAborts ==
    (MalformedHeader /\ pc # "parse_period") =>
        /\ pc = "done"
        /\ result = RosterParsingError
        /\ events = <<>>
        /\ sections = <<>>
        /\ flight_lines = <<>>

\* C8 witness: the parse of a document with a flight section was aborted
\* for its header.
C8_Witness ==
    /\ pc = "done"
    /\ result = RosterParsingError
    /\ MalformedHeader
    /\ \E k \in DocPositions : FULL_FLIGHT_PATTERN(lines[k]).matched

\* The entries of the returned sections, as (section, position) pairs.
SectionEntries ==
    UNION { { <<s, e>> : e \in 1..Len(sections[s]) } : s \in 1..Len(sections) }

EntryAt(x) == sections[x[1]][x[2]]

\* A section entry that matches the full flight pattern but whose day does
\* not exist in the month of the period start or of the period end.
UnresolvableEntry(x) ==
    LET match == FULL_FLIGHT_PATTERN(EntryAt(x).text) IN
    /\ match.matched
    /\ \/ ~ResolveInstant(period_start, StrToInt(match.g1), match.g5).ok
       \/ ~ResolveInstant(period_end, StrToInt(match.g1), match.g5).ok

C10_DayInRange ==
    \A i \in 1..Len(events) : events[i].day_of_month \in 1..31

\* C11: resolved dates are ordered.  Of two consecutive records of the list
\* that both got a calendar entry, the later one is not dated before the
\* earlier one (at the rollover boundary the date jumps forward).
C11_DatesOrdered ==
    \A i \in 1..Len(calendar) : \A j \in 1..Len(calendar) :
        calendar[j].src = calendar[i].src + 1 =>
            DateLeq(DateOf(calendar[i].begin), DateOf(calendar[j].begin))

\* The months from year 0 to the month of an instant.
MonthIndex(dt) == 12 * dt.year + dt.month

\* C12: every period parse_period returns has its end in the month of its
\* start or in the month after it; a header whose dates are otherwise is
\* not returned as a period.
C12_PeriodSpan ==
    (period_start # NoDatetime /\ period_end # NoDatetime) =>
        MonthIndex(period_end) - MonthIndex(period_start) \in {0, 1}

\* The second call has ended.
SecondCallDone == pc = "done" /\ first_call.made

RECURSIVE DepartingAfter(_, _, _)
DepartingAfter(evs, i, cutoff) ==
    IF i > Len(evs) THEN <<>>
    ELSE (IF DtLess(cutoff,
                    get_departure_datetime(evs[i], UsePeriodEnd(evs, i)))
          THEN <<evs[i]>> ELSE <<>>)
         \o DepartingAfter(evs, i + 1, cutoff)

\* A call without a cutoff returned, and a call with a cutoff on the same
\* lines has ended.
UnfilteredThenFiltered ==
    /\ SecondCallDone
    /\ first_call.cutoff_datetime = NoDatetime
    /\ first_call.result = "returned"
    /\ cutoff_datetime # NoDatetime

\* C20: cutoff filtering is a pure filter of the unfiltered result.  The
\* call with a cutoff returns exactly the records of the call without one
\* whose departure, resolved over the whole unfiltered list, is after the
\* cutoff, in the same order.
C20_CutoffIsFilter ==
    UnfilteredThenFiltered =>
        /\ result = "returned"
        /\ events = DepartingAfter(first_call.events, 1, cutoff_datetime)

\* The entries of all sections, one section after the other.
RECURSIVE AllEntries(_)
AllEntries(secs) ==
    IF secs = <<>> THEN <<>> ELSE Head(secs) \o AllEntries(Tail(secs))

MatchesFullFlight(entry) == FULL_FLIGHT_PATTERN(entry.text).matched

\* extract_flights_from_sections has returned.
ExtractReturned == pc \in {"parse_flights", "done"}

\* C19: the flight lines are the section entries that match the full flight
\* pattern, each once and unaltered, in the order of the sections; an entry
\* is kept if and only if it matches.
C19_KeepIffMatch ==
    ExtractReturned =>
        flight_lines = SelectSeq(AllEntries(sections), MatchesFullFlight)

\* C19 witness: a section holds a layover line, which was not kept, before
\* a repaired bare line (it contains "LO" after its date prefix), which was.
C19_Witness ==
    /\ ExtractReturned
    /\ \E x \in SectionEntries : \E y \in SectionEntries :
          /\ x[1] = y[1]
          /\ x[2] < y[2]
          /\ ~IsMarkerLine(EntryAt(x).text)
          /\ ~MatchesFullFlight(EntryAt(x))
          /\ FLIGHT_PATTERN(lines[EntryAt(y).src]).matched
          /\ \E f \in 1..Len(flight_lines) : flight_lines[f] = EntryAt(y)

\* The flight line is one the cutoff filters out: its departure, against
\* period_start or against period_end, is resolved and not after the cutoff.
FilteredOut(flight_line) ==
    /\ cutoff_datetime # NoDatetime
    /\ \E use_period_end \in BOOLEAN :
          LET departure_dt ==
                  get_departure_datetime(
                      parse_flight_to_event(flight_line, period_start, period_end),
                      use_period_end)
          IN departure_dt.ok /\ ~DtLess(cutoff_datetime, departure_dt)

\* C15: no partial success.  A call that has ended either raised
\* RosterParsingError, and then no record is returned, or returned the full
\* list: a record for every flight line, but for those the cutoff filters
\* out.  Nothing else escapes the call.
C15_NoPartialSuccess ==
    pc = "done" =>
        /\ result \in {"returned", RosterParsingError}
        /\ result = RosterParsingError => events = <<>>
        /\ result = "returned" =>
              \A f \in 1..Len(flight_lines) :
                  \/ \E i \in 1..Len(events) : events[i].src = flight_lines[f].src
                  \/ FilteredOut(flight_lines[f])

\* C15 witness: the call raised at a flight line after a flight line whose
\* record it had already kept, and returns no record.
C15_Witness ==
    /\ pc = "done"
    /\ result = RosterParsingError
    /\ events = <<>>
    /\ Len(flight_lines) >= 2
    /\ DtLess(cutoff_datetime,
              get_departure_datetime(
                  parse_flight_to_event(flight_lines[1], period_start, period_end),
                  FALSE))

\* C16: every record the call returns carries its resolved instants:
\* departure_datetime and arrival_datetime are set, to the departure and the
\* arrival resolved against period_start or period_end.
C16_InstantsSet ==
    (pc = "done" /\ result = "returned") =>
        \A i \in 1..Len(events) :
            /\ events[i].departure_datetime # NoDatetime
            /\ events[i].arrival_datetime # NoDatetime
            /\ \E use_period_end \in BOOLEAN :
                  /\ events[i].departure_datetime
                       = get_departure_datetime(events[i], use_period_end)
                  /\ events[i].arrival_datetime
                       = get_arrival_datetime(events[i], use_period_end)

\* C17: the call delivers the minimum cutoff date parsed from token 6 of
\* header line index 0 together with the records, so it fails with a parsing
\* error when that line has fewer than 7 space-separated tokens or when the
\* token is not a date.
C17_MinCutoffRequired ==
    (pc = "done" /\ Len(lines) >= 1) =>
        \A first_parts \in { Split(lines[1]) } :
            (Len(first_parts) < 7 \/ ~Strptime(first_parts[7]).ok)
                => result = RosterParsingError

\* Line i of ls holds a check-in or a check-out marker.
HasMarker(ls, i) == Contains(ls[i], "C/I") \/ Contains(ls[i], "C/O")

\* validate_pdf_structure has been called: its outcome is the fourth entry
\* of the log, after the two of the extraction and the announcement.
ValidationActed ==
    Len(st_log) >= 4 /\ st_log[3].msg = "Validating PDF structure..."

\* C13: validate_pdf_structure raises InvalidFileError if and only if the
\* list has fewer than 3 lines or no line contains "C/I" or "C/O"; otherwise
\* it returns without error; in both cases the lines are the extracted
\* lines, unmodified.
C13_ValidateIff ==
    ValidationActed =>
        /\ lines = PageLines(pdf_file.pages, 1)
        /\ IF Len(lines) < 3 \/ \A i \in 1..Len(lines) : ~HasMarker(lines, i)
           THEN st_log[4] = Reported("PDF Processing Error", InvalidFileError)
           ELSE st_log[4] = Written("PDF structure validation passed", None)

\* Three lines or more, none with a marker: the validation raised.
C13_Witness ==
    /\ ValidationActed
    /\ Len(lines) >= 3
    /\ st_log[4].kind = "error"

\* The parser has been called, or has left a trace of a call.
ParserAttempted ==
    \/ pc \in {"parse_period", "extract_work_sections", "extract_flights",
               "parse_flights", "done"}
    \/ result # "pending"
    \/ period_start # NoDatetime
    \/ \E k \in 1..Len(st_log) : st_log[k].msg = "Parsing flights from PDF..."

\* C14: in process_roster_pdf the parser is called only after the text
\* extraction and validate_pdf_structure have both succeeded; when one of
\* them fails the parser is never called, the error is reported with
\* st.error and the empty list is returned.
C14_ValidationPrecedesParsing ==
    \A extraction \in { extract_text_from_pdf(pdf_file) } :
        /\ ParserAttempted =>
              /\ extraction.ok
              /\ lines = extraction.lines
              /\ validate_pdf_structure(extraction.lines).ok
        /\ (/\ pc = "app_done"
            /\ ~(extraction.ok /\ validate_pdf_structure(extraction.lines).ok))
              => /\ ~ParserAttempted
                 /\ st_log[Len(st_log)].kind = "error"
                 /\ IsPDFProcessingError(st_log[Len(st_log)].arg)
                 /\ app_events = [returned |-> TRUE, events |-> <<>>]

\* The extraction succeeded, the validation failed, and the function ended.
C14_Witness ==
    /\ pc = "app_done"
    /\ extract_text_from_pdf(pdf_file).ok
    /\ ~validate_pdf_structure(lines).ok
    /\ app_events = [returned |-> TRUE, events |-> <<>>]

\* The hour and the minute an HHMM text stands for.
HourOf(hhmm) == StrToInt(SubSeq(hhmm, 1, 2))

MinuteOf(hhmm) == StrToInt(SubSeq(hhmm, 3, 4))

\* Calendar entry c begins and ends on day_of_month of its flight in the
\* month of anchor, at the flight's departure and arrival HHMM.
OnAnchor(c, flight, anchor) ==
    /\ c.begin = Datetime(anchor.year, anchor.month, flight.day_of_month,
                          HourOf(flight.departure_time),
                          MinuteOf(flight.departure_time))
    /\ c.end = Datetime(anchor.year, anchor.month, flight.day_of_month,
                        HourOf(flight.arrival_time),
                        MinuteOf(flight.arrival_time))

ScanStep == pc = "extract_work_sections" /\ Len(lines') = Len(lines) + 1

LineRead == lines'[Len(lines')]

\* The number of entries of section with the check-in marker.
RECURSIVE CheckIns(_, _)
CheckIns(section, k) ==
    IF k > Len(section) THEN 0
    ELSE (IF Contains(section[k].text, "C/I") THEN 1 ELSE 0)
             + CheckIns(section, k + 1)

\* C23: a check-in marker line changes the segmenter only when it is idle.
\* Read while collecting, it leaves collecting TRUE and current_section
\* unchanged, and so every completed section has exactly one check-in line.
C23_CheckInOnlyWhenIdle ==
    [][ /\ (ScanStep /\ collecting /\ Contains(LineRead, "C/I"))
            => (collecting' /\ current_section' = current_section)
        /\ \A s \in 1..Len(sections') : CheckIns(sections'[s], 1) = 1 ]_vars

\* C24: while the segmenter is idle, a line with neither marker changes
\* nothing: sections, current_section and collecting are unchanged; and
\* current_section is empty in every state in which the segmenter is idle.
C24_IdleDropsLines ==
    /\ [](~collecting => current_section = <<>>)
    /\ [][ (/\ ScanStep
            /\ ~collecting
            /\ ~Contains(LineRead, "C/I")
            /\ ~Contains(LineRead, "C/O"))
           => UNCHANGED <<sections, current_section, collecting>> ]_vars

\* A flight line was read while idle, after a section had been completed.
C24_Witness ==
    /\ pc = "extract_work_sections"
    /\ Len(lines) > 4
    /\ Len(sections) > 0
    /\ ~collecting
    /\ FLIGHT_PATTERN(lines[Len(lines)]).matched

\* The match of the most recent Workday-start line among lines 4..k of ls.
RECURSIVE LastWorkday(_, _)
LastWorkday(ls, k) ==
    IF k < 4 THEN NoMatch
    ELSE IF WORKDAY_PATTERN(ls[k]).matched THEN WORKDAY_PATTERN(ls[k])
    ELSE LastWorkday(ls, k - 1)

\* Entry e, made of a bare flight line, carries the day and the weekday of
\* the most recent Workday-start line.
PrefixedByLastWorkday(e) ==
    \A w \in { LastWorkday(lines, e.src) } :
        /\ w.matched
        /\ e.text = w.g1 \o ". " \o w.g2 \o " " \o lines[e.src]

\* C25: the day/weekday context is written only by lines matching
\* Workday-start and is never cleared, neither by a check-out flush nor by a
\* fully-qualified flight line; so every bare flight line kept is prefixed
\* with the day and weekday of the most recent Workday-start line.
C25_ContextOnlyFromWorkdayStart ==
    /\ [][ ScanStep =>
             \A w \in { WORKDAY_PATTERN(LineRead) } :
                 IF w.matched
                 THEN current_day' = w.g1 /\ current_weekday' = w.g2
                 ELSE UNCHANGED <<current_day, current_weekday>> ]_vars
    /\ [](\A e \in { (AllEntries(sections) \o current_section)[j] :
                       j \in 1..Len(AllEntries(sections) \o current_section) } :
              FLIGHT_PATTERN(lines[e.src]).matched => PrefixedByLastWorkday(e))

\* A section was flushed, the next one was opened by a check-in line that
\* is no Workday-start, and a bare flight line read in it was prefixed with
\* the day of the earlier section's Workday-start line.
C25_Witness ==
    /\ Len(sections) > 0
    /\ Len(current_section) = 2
    /\ current_section[1].text = "C/I WAW"
    /\ current_section[2].text = "5. Tue LO 635 WAW 2055 2300 SOF E75"

\* Section has only marker lines.
OnlyMarkers(section) ==
    \A j \in 1..Len(section) :
        Contains(section[j].text, "C/I") \/ Contains(section[j].text, "C/O")

\* C26: while collecting with no day/weekday context established, a line
\* with neither marker is dropped, a fully-qualified flight line included;
\* a section completed before any Workday-start line was read holds only
\* its marker lines.
C26_NoContextDropsLines ==
    /\ [][ (/\ ScanStep
            /\ collecting
            /\ current_day = None
            /\ ~Contains(LineRead, "C/I")
            /\ ~Contains(LineRead, "C/O"))
           => UNCHANGED <<sections, current_section, collecting>> ]_vars
    /\ [](\A s \in 1..Len(sections) :
              ~LastWorkday(lines, sections[s][Len(sections[s])].src).matched
                  => OnlyMarkers(sections[s]))

\* A section opened by a check-in line without day prefix, a fully-qualified
\* flight line read in it, and the section completed with its two marker
\* lines only.
C26_Witness ==
    /\ Len(sections) = 1
    /\ Len(sections[1]) = 2
    /\ sections[1][1].text = "C/I WAW"
    /\ sections[1][2].src = sections[1][1].src + 2
    /\ FULL_FLIGHT_PATTERN(lines[sections[1][1].src + 1]).matched
    /\ current_day = None

\* C27: check-in takes precedence over check-out.  A line with both markers
\* is handled as a check-in line only: it is appended to current_section,
\* collecting is TRUE after it, and nothing is flushed.
C27_CheckInPrecedence ==
    [][ (/\ ScanStep
         /\ Contains(LineRead, "C/I")
         /\ Contains(LineRead, "C/O"))
        => /\ collecting'
           /\ current_section'
                 = Append(current_section, Entry(Len(lines'), LineRead))
           /\ sections' = sections ]_vars

\* A completed section with a line holding the check-out marker before its
\* last line.
C27_Witness ==
    \E s \in 1..Len(sections) :
        \E j \in 1..(Len(sections[s]) - 1) :
            Contains(sections[s][j].text, "C/O")

\* C22: extract_text_from_pdf rejects a file larger than 50MB with
\* FileSizeError before anything else, and reports a PDF that opens but has
\* no pages, or no text on any page, as InvalidFileError.
C22_EmptyIsInvalidFile ==
    (Len(st_log) >= 2 /\ st_log[2].kind = "error") =>
        IF pdf_file.size > MAX_FILE_SIZE
        THEN st_log[2].arg = FileSizeError
        ELSE (pdf_file.opens /\ PageLines(pdf_file.pages, 1) = <<>>)
                => st_log[2].arg = InvalidFileError

\* The extracted lines have a marker among the three header lines and none
\* from index 3 on, and the period line is valid.
MarkersOnlyInHeader ==
    /\ Len(lines) >= 3
    /\ \E i \in 1..3 : HasMarker(lines, i)
    /\ \A i \in 4..Len(lines) : ~HasMarker(lines, i)
    /\ parse_period(lines).ok

=============================================================================
